---- MODULE Spec2Model ----
(***************************************************************************)
(* Model of the e-commerce services: the order service (order creation,    *)
(* status update and cancellation on a pooled PostgreSQL connection, READ  *)
(* COMMITTED isolation, row locks taken by UPDATE), the soft delete of the *)
(* product service, and the login service (sessions and tokens).           *)
(*                                                                         *)
(* Money is counted in cents: DECIMAL(10,2) columns hold whole cents, and  *)
(* parseFloat(price) * quantity, sent back to a DECIMAL(10,2) column, is   *)
(* rounded by the store to the exact number of cents.                      *)
(***************************************************************************)
EXTENDS Integers, Sequences, FiniteSets, TLC

(* ------------------------------ bounds -------------------------------- *)
MaxStock == 2
MaxLines == 2
MaxTime == 1
TokenLifetime == 1

Products == {1, 2}
MissingProduct == 9
Quantities == {1, 2}
Prices == [p \in Products |-> IF p = 1 THEN 129999 ELSE 29999]
Reqs == {1, 2}
Conns == {1, 2}
OrderIds == {1, 2}
MaxOrders == Cardinality(OrderIds)
NoUser == 0
SomeUser == 1

(* ---------------------- order service: state --------------------------- *)
VARIABLES
  stock,          \* products.stock_quantity, committed
  active,         \* products.is_active, committed
  price,          \* products.price in cents, committed
  initStock,      \* stock_quantity when the services started
  orders,         \* orders table, committed: id -> [user_id, total_amount, status]
  order_items,    \* order_items table, committed: order id -> rows
  nextOrderId,    \* the orders_id_seq sequence
  cache,          \* the 'products:all' cache key: [present, products]
  busy,           \* pool: connections checked out
  inTxn,          \* connection has an open transaction
  txStock,        \* connection's uncommitted change of each stock_quantity
  txLocks,        \* product rows the connection's transaction has locked
  txStatus,       \* connection's uncommitted orders.status updates (row locks)
  pc,             \* position of each request of the order service
  body,           \* the request: [n |-> items.length, id |-> req.params.id]
  client,         \* the pooled connection the request holds
  idx,            \* position of the for loop over the lines
  totalAmount,    \* let totalAmount
  processedItems, \* const processedItems
  res             \* the last response the order service sent: [status, error, detail]

dbVars == <<stock, active, price, initStock, orders, order_items, nextOrderId, cache>>
connVars == <<busy, inTxn, txStock, txLocks, txStatus>>
reqVars == <<pc, body, client, idx, totalAmount, processedItems>>

(* ---------------------- login service: state --------------------------- *)
VARIABLES
  now,            \* the clock (Date.now(), NOW()), in ticks
  is_active,      \* users.is_active
  password_hash,  \* users.password_hash
  user_sessions,  \* user_sessions table: rows [user_id, session_token, expires_at]
  apc,            \* position of each request of the login service
  areq,           \* the request: [token, id] (the token, the user it is about)
  revoked         \* history: [token, by], a token whose session row the last
                  \* DELETE removed, and what deleted it

authVars == <<now, is_active, password_hash, user_sessions, apc, areq, revoked>>

(* --------------------- product service: state -------------------------- *)
VARIABLES
  created,        \* number of rows POST /api/products has inserted
  ppc,            \* position of each request of the product service
  preq,           \* the request: [op, id, price, products, alone]; alone is history:
                  \* no other request of the service ran while this one did
  pres            \* the last response the product service sent: [op, status, products]

prodVars == <<created, ppc, preq, pres>>

vars == <<dbVars, connVars, reqVars, res, authVars, prodVars>>

(* ------------------------- store: helpers ------------------------------ *)
NoRows == [o \in {} |-> 0]
NoChange == [p \in Products |-> 0]
validStatuses == {"pending", "confirmed", "processing", "shipped", "delivered", "cancelled"}
StatusInputs == {"pending", "delivered", "cancelled", "bogus"}

\* What a statement on connection c reads as stock_quantity of p: the
\* committed row, or the row version its own transaction wrote.
\* (VisibleStockCommitted: a SELECT that does not see the transaction's own
\* UPDATE.)
VisibleStockCommitted(c, p) == stock[p]
VisibleStock(c, p) == stock[p] + txStock[c][p]

\* What a statement on connection c reads as the status of order o.
VisibleStatus(c, o) == IF o \in DOMAIN txStatus[c] THEN txStatus[c][o] ELSE orders[o].status

\* Row locks: an UPDATE waits while another transaction holds the row.
ProductLockedByOther(c, p) == \E d \in Conns \ {c} : p \in txLocks[d]
OrderLockedByOther(c, o) == \E d \in Conns \ {c} : o \in DOMAIN txStatus[d]

\* UPDATE orders SET status = $1: the row with the new status.
\* (WithStatusRefunds: an UPDATE that also clears the total of a cancelled
\* order.)
WithStatusRefunds(order, status) ==
  [order EXCEPT !.status = status,
                !.total_amount = IF status = "cancelled" THEN 0 ELSE @]
WithStatus(order, status) == [order EXCEPT !.status = status]

\* COMMIT on connection c: its writes become the committed rows.
CommitStock(c) == [p \in Products |-> stock[p] + txStock[c][p]]
CommitOrders(c) ==
  [o \in DOMAIN orders |->
     IF o \in DOMAIN txStatus[c] THEN WithStatus(orders[o], txStatus[c][o])
     ELSE orders[o]]

\* ROLLBACK on connection c: the committed rows stay as they are.
\* (RollbackStockCommits: a catch block that ended the transaction with its
\* writes kept.)
RollbackStockCommits(c) == CommitStock(c)
RollbackStock(c) == stock
RollbackOrders(c) == orders

\* The transaction of connection c ends (COMMIT or ROLLBACK): its locks and
\* uncommitted writes are gone.
EndTxn(c) ==
  /\ inTxn' = [inTxn EXCEPT ![c] = FALSE]
  /\ txStock' = [txStock EXCEPT ![c] = NoChange]
  /\ txLocks' = [txLocks EXCEPT ![c] = {}]
  /\ txStatus' = [txStatus EXCEPT ![c] = NoRows]

\* pool.connect() and pool.query() take an idle connection of the pool. Of
\* two idle connections in the same state the lower one stands for both.
Acquire(c) ==
  /\ ~busy[c]
  /\ \A d \in Conns : (d < c /\ ~busy[d]) => (inTxn[d] # inTxn[c] \/ txStatus[d] # txStatus[c])

\* A request slot is free; of the free slots the lowest is used.
Idle(r) == pc[r] = "idle"
FreeSlot(r) == Idle(r) /\ \A q \in Reqs : (q < r) => ~Idle(q)

\* A response: the status, the kind of message, and for the two errors of
\* the product loop the numbers their message names (the product, the
\* stock available, the quantity requested).
Response(status, error) == [status |-> status, error |-> error, detail |-> <<0, 0, 0>>]
ProductError(error, product_id, available, requested) ==
  [status |-> 500, error |-> error, detail |-> <<product_id, available, requested>>]

\* The request is over: finally releases the connection; its locals are gone.
Finish(r) ==
  /\ pc' = [pc EXCEPT ![r] = "idle"]
  /\ busy' = [busy EXCEPT ![client[r]] = FALSE]
  /\ client' = [client EXCEPT ![r] = 0]
  /\ body' = [body EXCEPT ![r] = [n |-> 0, id |-> 0]]
  /\ idx' = [idx EXCEPT ![r] = 1]
  /\ totalAmount' = [totalAmount EXCEPT ![r] = 0]
  /\ processedItems' = [processedItems EXCEPT ![r] = <<>>]

\* catch: ROLLBACK, 500 with the error's message, finally release.
Fail(r, response) ==
  /\ stock' = RollbackStock(client[r])
  /\ orders' = RollbackOrders(client[r])
  /\ EndTxn(client[r])
  /\ Finish(r)
  /\ res' = response

\* The row lock the next statement of request r has to wait for: the
\* connections whose transaction holds it.
BlockedOn(r) ==
  IF pc[r] = "update"
    THEN {d \in Conns \ {client[r]} :
            processedItems[r][idx[r]].product_id \in txLocks[d]}
  ELSE IF pc[r] = "restore"
    THEN {d \in Conns \ {client[r]} :
            order_items[body[r].id][idx[r]].product_id \in txLocks[d]}
  ELSE IF pc[r] = "cancel_commit"
    THEN {d \in Conns \ {client[r]} : body[r].id \in DOMAIN txStatus[d]}
  ELSE {}

WaitsFor(r) == {q \in Reqs \ {r} : ~Idle(q) /\ client[q] \in BlockedOn(r)}

RECURSIVE WaitChain(_, _)
WaitChain(S, k) ==
  IF k = 0 THEN S ELSE WaitChain(S \cup UNION {WaitsFor(q) : q \in S}, k - 1)

\* The store's deadlock detector: r waits, directly or through others, for
\* a transaction that waits for r.
Deadlocked(r) == r \in WaitChain(WaitsFor(r), Cardinality(Reqs))

(* ----------------- order service: POST /api/orders --------------------- *)
\* itemTotal = parseFloat(product.price) * item.quantity
\* (ItemTotalAdds: the same with + for *.)
ItemTotalAdds(unit_price, quantity) == unit_price + quantity
ItemTotal(unit_price, quantity) == unit_price * quantity

\* SELECT ... FROM products WHERE id = $1 AND is_active = true returns a row
\* (ProductFoundIgnoresActive: the same without the is_active condition.)
ProductFoundIgnoresActive(p) == p \in Products
ProductFound(p) == p \in Products /\ active[p]

\* product.stock_quantity < item.quantity
InsufficientStock(stock_quantity, quantity) == stock_quantity < quantity

CreatePcs == {"select", "update", "commit"}

\* pool.connect(), BEGIN, validation of req.body. The 400 return leaves the
\* try block without COMMIT or ROLLBACK; finally releases the connection.
CreateStart(r, c, user_id, n) ==
  /\ FreeSlot(r)
  /\ Acquire(c)
  /\ inTxn' = [inTxn EXCEPT ![c] = TRUE]
  /\ IF user_id = NoUser \/ n = 0
       THEN /\ res' = Response(400, "validation")
            /\ UNCHANGED <<pc, body, client, busy>>
       ELSE /\ pc' = [pc EXCEPT ![r] = "select"]
            /\ body' = [body EXCEPT ![r] = [n |-> n, id |-> 0]]
            /\ client' = [client EXCEPT ![r] = c]
            /\ busy' = [busy EXCEPT ![c] = TRUE]
            /\ UNCHANGED res
  /\ UNCHANGED <<dbVars, txStock, txLocks, txStatus, idx, totalAmount,
                 processedItems, authVars, prodVars>>

\* One pass of the loop up to the UPDATE: SELECT the product, the two
\* checks, itemTotal, totalAmount, processedItems.push. The line items[idx]
\* of the body is drawn when the loop reads it. A throw runs the catch
\* block in the same step: no other request can tell the moment of the
\* ROLLBACK from the moment of the throw.
CreateSelect(r, product_id, quantity) ==
  /\ pc[r] = "select"
  /\ IF ~ProductFound(product_id)
       THEN /\ Fail(r, ProductError("not_found", product_id, 0, 0))
            /\ UNCHANGED <<active, price, initStock, order_items, nextOrderId, cache>>
       ELSE IF InsufficientStock(VisibleStock(client[r], product_id), quantity)
       THEN /\ Fail(r, ProductError("insufficient_stock", product_id,
                      VisibleStock(client[r], product_id), quantity))
            /\ UNCHANGED <<active, price, initStock, order_items, nextOrderId, cache>>
       ELSE /\ totalAmount' = [totalAmount EXCEPT
                 ![r] = @ + ItemTotal(price[product_id], quantity)]
            /\ processedItems' = [processedItems EXCEPT ![r] = Append(@,
                 [product_id |-> product_id, quantity |-> quantity,
                  unit_price |-> price[product_id],
                  total_price |-> ItemTotal(price[product_id], quantity)])]
            /\ pc' = [pc EXCEPT ![r] = "update"]
            /\ UNCHANGED <<dbVars, connVars, body, client, idx, res>>
  /\ UNCHANGED <<authVars, prodVars>>

\* stock_quantity = stock_quantity - $1, as a change of the row
Decrement(change, quantity) == change - quantity

\* UPDATE products SET stock_quantity = stock_quantity - $1: takes the row
\* lock, so it waits while another transaction holds the row, and then
\* changes the row as it is committed by then.
CreateUpdate(r) ==
  LET c == client[r]
      item == processedItems[r][idx[r]]
  IN /\ pc[r] = "update"
     /\ ~ProductLockedByOther(c, item.product_id)
     /\ txStock' = [txStock EXCEPT ![c][item.product_id] = Decrement(@, item.quantity)]
     /\ txLocks' = [txLocks EXCEPT ![c] = @ \cup {item.product_id}]
     /\ idx' = [idx EXCEPT ![r] = @ + 1]
     /\ pc' = [pc EXCEPT ![r] = IF idx[r] = body[r].n THEN "commit" ELSE "select"]
     /\ UNCHANGED <<dbVars, busy, inTxn, txStatus, body, client, totalAmount,
                    processedItems, res, authVars, prodVars>>

\* The UPDATE is the victim of a deadlock: the statement throws.
CreateDeadlock(r) ==
  /\ pc[r] = "update"
  /\ Deadlocked(r)
  /\ Fail(r, Response(500, "deadlock"))
  /\ UNCHANGED <<active, price, initStock, order_items, nextOrderId, cache, authVars, prodVars>>

InsertedOrder(total_amount) ==
  [user_id |-> SomeUser, total_amount |-> total_amount, status |-> "pending"]

\* INSERT INTO orders (status defaults to 'pending'), one INSERT INTO
\* order_items per processed line, COMMIT, the read back of the order, 201,
\* finally release. The inserted rows are seen by no other transaction
\* before the COMMIT and wait for no lock.
CreateCommit(r) ==
  LET c == client[r]
  IN /\ pc[r] = "commit"
     /\ stock' = CommitStock(c)
     /\ orders' = (nextOrderId :> InsertedOrder(totalAmount[r])) @@ CommitOrders(c)
     /\ order_items' = (nextOrderId :> processedItems[r]) @@ order_items
     /\ nextOrderId' = nextOrderId + 1
     /\ EndTxn(c)
     /\ Finish(r)
     /\ res' = Response(201, "none")
     /\ UNCHANGED <<active, price, initStock, cache, authVars, prodVars>>

(* --------------- order service: DELETE /api/orders/:id ----------------- *)
\* order.status === 'delivered'
\* (IsDeliveredNever: a handler without the check.)
IsDeliveredNever(status) == FALSE
IsDelivered(status) == status = "delivered"

\* pool.connect(), BEGIN, SELECT the order, the two early returns (which
\* leave the try block without COMMIT or ROLLBACK), SELECT its items.
CancelStart(r, c, id) ==
  /\ FreeSlot(r)
  /\ Acquire(c)
  /\ inTxn' = [inTxn EXCEPT ![c] = TRUE]
  /\ IF id \notin DOMAIN orders
       THEN /\ res' = Response(404, "order_not_found")
            /\ UNCHANGED <<pc, body, client, busy>>
       ELSE IF IsDelivered(VisibleStatus(c, id))
       THEN /\ res' = Response(400, "delivered")
            /\ UNCHANGED <<pc, body, client, busy>>
       ELSE /\ pc' = [pc EXCEPT ![r] =
                 IF Len(order_items[id]) = 0 THEN "cancel_commit" ELSE "restore"]
            /\ body' = [body EXCEPT ![r] = [n |-> 0, id |-> id]]
            /\ client' = [client EXCEPT ![r] = c]
            /\ busy' = [busy EXCEPT ![c] = TRUE]
            /\ UNCHANGED res
  /\ UNCHANGED <<dbVars, txStock, txLocks, txStatus, idx, totalAmount,
                 processedItems, authVars, prodVars>>

\* stock_quantity = stock_quantity + $1, as a change of the row
\* (RestoreKeeps: an UPDATE that adds nothing.)
RestoreKeeps(change, quantity) == change
Restore(change, quantity) == change + quantity

\* UPDATE products SET stock_quantity = stock_quantity + $1 for one item.
CancelRestore(r) ==
  LET c == client[r]
      item == order_items[body[r].id][idx[r]]
  IN /\ pc[r] = "restore"
     /\ ~ProductLockedByOther(c, item.product_id)
     /\ txStock' = [txStock EXCEPT ![c][item.product_id] = Restore(@, item.quantity)]
     /\ txLocks' = [txLocks EXCEPT ![c] = @ \cup {item.product_id}]
     /\ idx' = [idx EXCEPT ![r] = @ + 1]
     /\ pc' = [pc EXCEPT ![r] =
          IF idx[r] = Len(order_items[body[r].id]) THEN "cancel_commit" ELSE "restore"]
     /\ UNCHANGED <<dbVars, busy, inTxn, txStatus, body, client, totalAmount,
                    processedItems, res, authVars, prodVars>>

\* One of the UPDATEs is the victim of a deadlock: the statement throws,
\* catch: ROLLBACK, 500, finally release.
CancelDeadlock(r) ==
  /\ pc[r] \in {"restore", "cancel_commit"}
  /\ Deadlocked(r)
  /\ Fail(r, Response(500, "internal"))
  /\ UNCHANGED <<active, price, initStock, order_items, nextOrderId, cache, authVars, prodVars>>

\* UPDATE orders SET status = 'cancelled' (waits for the lock of the order
\* row), COMMIT, 200, finally release.
CancelCommit(r) ==
  LET c == client[r]
  IN /\ pc[r] = "cancel_commit"
     /\ ~OrderLockedByOther(c, body[r].id)
     /\ stock' = CommitStock(c)
     /\ orders' = [CommitOrders(c) EXCEPT ![body[r].id] = WithStatus(@, "cancelled")]
     /\ EndTxn(c)
     /\ Finish(r)
     /\ res' = Response(200, "cancelled")
     /\ UNCHANGED <<active, price, initStock, order_items, nextOrderId, cache, authVars, prodVars>>

(* ------------- order service: PATCH /api/orders/:id/status ------------- *)
\* pool.query runs the UPDATE on an idle connection of the pool and releases
\* it; on a connection released with an open transaction the UPDATE is part
\* of that transaction and stays uncommitted.
UpdateStatus(c, id, status) ==
  /\ Acquire(c)
  /\ IF status \notin validStatuses
       THEN /\ res' = Response(400, "invalid_status")
            /\ UNCHANGED <<orders, txStatus>>
       ELSE IF id \notin DOMAIN orders
       THEN /\ res' = Response(404, "order_not_found")
            /\ UNCHANGED <<orders, txStatus>>
       ELSE /\ ~OrderLockedByOther(c, id)
            /\ res' = Response(200, "status_updated")
            /\ IF inTxn[c]
                 THEN /\ txStatus' = [txStatus EXCEPT ![c] = (id :> status) @@ @]
                      /\ UNCHANGED orders
                 ELSE /\ orders' = [orders EXCEPT ![id] = WithStatus(@, status)]
                      /\ UNCHANGED txStatus
  /\ UNCHANGED <<stock, active, price, initStock, order_items, nextOrderId, cache,
                 busy, inTxn, txStock, txLocks, reqVars, authVars, prodVars>>

(* ------------------------- product service ----------------------------- *)
PReqs == {1, 2}
MaxCreated == 1

\* A field of req.body that may be missing: <<>> or <<value>>. pg sends a
\* missing field as NULL.
NoField == <<>>
PriceInputs == {NoField, <<9999>>}
StockInputs == {NoField, <<-1>>}

\* COALESCE($n, column)
Coalesce(field, column) == IF field = NoField THEN column ELSE field[1]

\* SELECT * FROM products WHERE is_active = true: the committed rows of the
\* sample products and the number of rows inserted since.
NoProducts == [rows |-> {}, created |-> 0]
ActiveProducts ==
  [rows |-> {[id |-> p, price |-> price[p], stock_quantity |-> stock[p]] :
               p \in {q \in Products : active[q]}},
   created |-> created]

\* The cache key 'products:all': absent, or the listing setEx stored.
CacheAbsent == [present |-> FALSE, products |-> NoProducts]
Cached(products) == [present |-> TRUE, products |-> products]

\* redisClient.del('products:all')
\* (InvalidatedKeeps: a del that leaves the key.)
InvalidatedKeeps(key) == key
Invalidated(key) == CacheAbsent

NoPRequest ==
  [op |-> "none", id |-> 0, price |-> NoField, products |-> NoProducts, alone |-> FALSE]
PRequest(op, id) == [NoPRequest EXCEPT !.op = op, !.id = id]
PResponse(op, status, products) == [op |-> op, status |-> status, products |-> products]
Mutations == {"create", "update", "delete"}

PIdle(r) == ppc[r] = "idle"
PFreeSlot(r) == PIdle(r) /\ \A q \in PReqs : (q < r) => ~PIdle(q)

\* The handler passes its first await. The request runs alone if no other
\* is in flight now and none begins before it ends.
PBegin(r, request, position) ==
  /\ ppc' = [ppc EXCEPT ![r] = position]
  /\ preq' = [q \in PReqs |->
                IF q = r THEN [request EXCEPT !.alone = \A s \in PReqs : PIdle(s)]
                ELSE [preq[q] EXCEPT !.alone = FALSE]]

PFinish(r) ==
  /\ ppc' = [ppc EXCEPT ![r] = "idle"]
  /\ preq' = [preq EXCEPT ![r] = NoPRequest]

\* GET /api/products: redisClient.get. A rejected get is caught by the
\* handler's one catch block: 500. A hit is answered from the cache.
ProductsGet(r, ok) ==
  /\ PFreeSlot(r)
  /\ IF ~ok
       THEN /\ pres' = PResponse("list", 500, NoProducts)
            /\ UNCHANGED <<ppc, preq>>
       ELSE IF cache.present
       THEN /\ pres' = PResponse("list", 200, cache.products)
            /\ UNCHANGED <<ppc, preq>>
       ELSE /\ PBegin(r, PRequest("list", 0), "query")
            /\ UNCHANGED pres
  /\ UNCHANGED <<created, dbVars, connVars, reqVars, res, authVars>>

\* GET /api/products, cache miss: the SELECT.
ProductsQuery(r) ==
  /\ ppc[r] = "query"
  /\ ppc' = [ppc EXCEPT ![r] = "set"]
  /\ preq' = [preq EXCEPT ![r].products = ActiveProducts]
  /\ UNCHANGED <<created, pres, dbVars, connVars, reqVars, res, authVars>>

\* GET /api/products, cache miss: redisClient.setEx, then res.json. A
\* rejected setEx is caught: 500.
ProductsSet(r, ok) ==
  /\ ppc[r] = "set"
  /\ IF ok
       THEN /\ cache' = Cached(preq[r].products)
            /\ pres' = PResponse("list", 200, preq[r].products)
       ELSE /\ UNCHANGED cache
            /\ pres' = PResponse("list", 500, NoProducts)
  /\ PFinish(r)
  /\ UNCHANGED <<created, stock, active, price, initStock, orders, order_items,
                 nextOrderId, connVars, reqVars, res, authVars>>

\* The key's 300 s are over.
CacheExpire ==
  /\ cache.present
  /\ cache' = CacheAbsent
  /\ UNCHANGED <<stock, active, price, initStock, orders, order_items,
                 nextOrderId, connVars, reqVars, res, authVars, prodVars>>

\* POST /api/products: the validation and the INSERT (a body without sku,
\* so the INSERT meets no unique violation).
ProductCreate(r, name, price_field) ==
  /\ PFreeSlot(r)
  /\ IF ~name \/ price_field = NoField
       THEN /\ pres' = PResponse("create", 400, NoProducts)
            /\ UNCHANGED <<created, ppc, preq>>
       ELSE /\ created < MaxCreated
            /\ created' = created + 1
            /\ PBegin(r, PRequest("create", 0), "invalidate")
            /\ UNCHANGED pres
  /\ UNCHANGED <<dbVars, connVars, reqVars, res, authVars>>

\* PUT /api/products/:id: the UPDATE, which waits for the row lock and is
\* committed on its own; 404 when it returns no row.
ProductUpdate(r, id, price_field, stock_field, active_field) ==
  /\ PFreeSlot(r)
  /\ IF id \notin Products
       THEN /\ pres' = PResponse("update", 404, NoProducts)
            /\ UNCHANGED <<price, stock, active, ppc, preq>>
       ELSE /\ \A d \in Conns : id \notin txLocks[d]
            /\ price' = [price EXCEPT ![id] = Coalesce(price_field, @)]
            /\ stock' = [stock EXCEPT ![id] = Coalesce(stock_field, @)]
            /\ active' = [active EXCEPT ![id] = Coalesce(active_field, @)]
            /\ PBegin(r, [PRequest("update", id) EXCEPT !.price = price_field], "invalidate")
            /\ UNCHANGED pres
  /\ UNCHANGED <<created, initStock, orders, order_items, nextOrderId, cache,
                 connVars, reqVars, res, authVars>>

\* DELETE /api/products/:id, step by step: the UPDATE that clears
\* is_active; 404 when it returns no row.
ProductDelete(r, id) ==
  /\ PFreeSlot(r)
  /\ IF id \notin Products
       THEN /\ pres' = PResponse("delete", 404, NoProducts)
            /\ UNCHANGED <<active, ppc, preq>>
       ELSE /\ \A d \in Conns : id \notin txLocks[d]
            /\ active' = [active EXCEPT ![id] = FALSE]
            /\ PBegin(r, PRequest("delete", id), "invalidate")
            /\ UNCHANGED pres
  /\ UNCHANGED <<created, stock, price, initStock, orders, order_items,
                 nextOrderId, cache, connVars, reqVars, res, authVars>>

\* await redisClient.del('products:all') of the three handlers. A rejected
\* del is caught: 500, with the store already written.
ProductInvalidate(r, ok) ==
  /\ ppc[r] = "invalidate"
  /\ IF ok
       THEN /\ cache' = Invalidated(cache)
            /\ ppc' = [ppc EXCEPT ![r] = "respond"]
            /\ UNCHANGED <<preq, pres>>
       ELSE /\ pres' = PResponse(preq[r].op, 500, NoProducts)
            /\ PFinish(r)
            /\ UNCHANGED cache
  /\ UNCHANGED <<created, stock, active, price, initStock, orders, order_items,
                 nextOrderId, connVars, reqVars, res, authVars>>

\* res.status(201).json / res.json after the del.
ProductRespond(r) ==
  /\ ppc[r] = "respond"
  /\ pres' = PResponse(preq[r].op, IF preq[r].op = "create" THEN 201 ELSE 200, NoProducts)
  /\ PFinish(r)
  /\ UNCHANGED <<created, dbVars, connVars, reqVars, res, authVars>>

ProductInit ==
  /\ created = 0
  /\ ppc = [r \in PReqs |-> "idle"]
  /\ preq = [r \in PReqs |-> NoPRequest]
  /\ pres = PResponse("none", 0, NoProducts)

(* ------------ product service: DELETE /api/products/:id ---------------- *)
\* UPDATE products SET is_active = false (waits for the row lock), then the
\* cache key is deleted.
DeleteProduct(p) ==
  /\ \A d \in Conns : p \notin txLocks[d]
  /\ active' = [active EXCEPT ![p] = FALSE]
  /\ cache' = Invalidated(cache)
  /\ UNCHANGED <<stock, price, initStock, orders, order_items, nextOrderId,
                 connVars, reqVars, res, authVars, prodVars>>

(* ------------------------- login service ------------------------------- *)
Users == {1, 2}
UnknownUser == 9
Passwords == {1, 2}
AReqs == {1, 2}

\* jwt.sign(tokenPayload, JWT_SECRET, {expiresIn: '24h'}): the token is a
\* function of the payload (the user) and of the issue time iat.
Sign(user_id, iat) == [user_id |-> user_id, iat |-> iat, signed |-> TRUE]
Forged == [user_id |-> 1, iat |-> 0, signed |-> FALSE]
Tokens == {Sign(u, t) : u \in Users, t \in 0..MaxTime} \cup {Forged}

\* jwt.verify(token, JWT_SECRET): the signature and the embedded expiry.
\* The middleware and the verify endpoint read the store and write nothing:
\* they are the operators AuthenticateToken and VerifyStatus of the state.
JwtVerify(token) == token.signed /\ now < token.iat + TokenLifetime

\* SELECT user_id FROM user_sessions WHERE session_token = $1 AND expires_at > NOW()
SessionRows(token) == {s \in user_sessions : s.session_token = token /\ s.expires_at > now}

\* The authenticateToken middleware: the status it answers, 200 for next().
AuthenticateToken(token) ==
  IF ~JwtVerify(token) THEN 403
  ELSE IF SessionRows(token) = {} THEN 401
  ELSE 200

\* POST /api/auth/verify: the status it answers.
VerifyStatus(token) ==
  IF ~JwtVerify(token) THEN 401
  ELSE IF SessionRows(token) = {} THEN 401
  ELSE 200

\* The error message of the two answers ("none" with the status 200).
AuthenticateError(token) ==
  IF ~JwtVerify(token) THEN "Invalid token"
  ELSE IF SessionRows(token) = {} THEN "Invalid or expired session"
  ELSE "none"

VerifyError(token) ==
  IF ~JwtVerify(token) THEN "Invalid token"
  ELSE IF SessionRows(token) = {} THEN "Invalid or expired session"
  ELSE "none"

AIdle(r) == apc[r] = "idle"
AFreeSlot(r) == AIdle(r) /\ \A q \in AReqs : (q < r) => ~AIdle(q)
NoRequest == [token |-> Forged, id |-> 0]

\* The response is sent: the request is over.
AFinish(r) ==
  /\ apc' = [apc EXCEPT ![r] = "idle"]
  /\ areq' = [areq EXCEPT ![r] = NoRequest]

\* POST /api/auth/login, up to bcrypt.compare: SELECT the active user,
\* compare the password with the hash that was read.
LoginRead(r, user, password) ==
  /\ AFreeSlot(r)
  /\ IF user \notin Users \/ ~is_active[user] \/ password # password_hash[user]
       THEN UNCHANGED <<apc, areq>>
       ELSE /\ apc' = [apc EXCEPT ![r] = "login_insert"]
            /\ areq' = [areq EXCEPT ![r] = [NoRequest EXCEPT !.id = user]]
  /\ UNCHANGED <<now, is_active, password_hash, user_sessions, revoked,
                 dbVars, connVars, reqVars, res, prodVars>>

\* jwt.sign, expiresAt, INSERT INTO user_sessions; session_token is UNIQUE,
\* a second row for the same token makes the INSERT throw (500).
LoginInsert(r) ==
  LET token == Sign(areq[r].id, now)
  IN /\ apc[r] = "login_insert"
     /\ IF \E s \in user_sessions : s.session_token = token
          THEN /\ AFinish(r)
               /\ UNCHANGED user_sessions
          ELSE /\ user_sessions' = user_sessions \cup
                    {[user_id |-> areq[r].id, session_token |-> token,
                      expires_at |-> now + TokenLifetime]}
               /\ AFinish(r)
     /\ UNCHANGED <<now, is_active, password_hash, revoked,
                    dbVars, connVars, reqVars, res, prodVars>>

\* A route behind authenticateToken: the middleware answers, or calls next().
\* Of the request the handler keeps what its later statements read: the
\* token (logout) or the user id (req.user.user_id, req.params.id).
Authenticated(r, token, kept, id, first) ==
  /\ AFreeSlot(r)
  /\ IF AuthenticateToken(token) # 200
       THEN UNCHANGED <<apc, areq>>
       ELSE /\ apc' = [apc EXCEPT ![r] = first]
            /\ areq' = [areq EXCEPT ![r] = [token |-> kept, id |-> id]]
  /\ UNCHANGED <<now, is_active, password_hash, user_sessions, revoked,
                 dbVars, connVars, reqVars, res, prodVars>>

\* POST /api/auth/logout
LogoutStart(r, token) == Authenticated(r, token, token, 0, "logout_delete")

\* DELETE FROM user_sessions WHERE session_token = $1
AfterLogout(token) == {s \in user_sessions : s.session_token # token}

LogoutDelete(r) ==
  /\ apc[r] = "logout_delete"
  /\ user_sessions' = AfterLogout(areq[r].token)
  /\ revoked' = [token |-> areq[r].token, by |-> "logout"]
  /\ AFinish(r)
  /\ UNCHANGED <<now, is_active, password_hash, dbVars, connVars, reqVars, res, prodVars>>

\* DELETE FROM user_sessions WHERE user_id = $1
AfterRevokeAll(user_id) == {s \in user_sessions : s.user_id # user_id}

\* History of a revokeAll: one of the tokens whose rows it deleted.
RevokedAll(user_id) ==
  IF \E s \in user_sessions : s.user_id = user_id
    THEN \E s \in user_sessions :
           /\ s.user_id = user_id
           /\ revoked' = [token |-> s.session_token, by |-> "revokeAll"]
    ELSE UNCHANGED revoked

\* POST /api/auth/change-password
ChangePasswordStart(r, token) ==
  Authenticated(r, token, Forged, token.user_id, "password_select")

\* SELECT password_hash of the active user, bcrypt.compare
ChangePasswordSelect(r, current_password) ==
  /\ apc[r] = "password_select"
  /\ IF ~is_active[areq[r].id]
       THEN AFinish(r)
       ELSE IF current_password # password_hash[areq[r].id]
       THEN AFinish(r)
       ELSE /\ apc' = [apc EXCEPT ![r] = "password_update"]
            /\ UNCHANGED areq
  /\ UNCHANGED <<now, is_active, password_hash, user_sessions, revoked,
                 dbVars, connVars, reqVars, res, prodVars>>

\* bcrypt.hash, UPDATE users SET password_hash
ChangePasswordUpdate(r, new_password) ==
  /\ apc[r] = "password_update"
  /\ password_hash' = [password_hash EXCEPT ![areq[r].id] = new_password]
  /\ apc' = [apc EXCEPT ![r] = "password_delete"]
  /\ UNCHANGED <<now, is_active, user_sessions, areq, revoked,
                 dbVars, connVars, reqVars, res, prodVars>>

\* DELETE FROM user_sessions WHERE user_id = $1, 200
ChangePasswordDelete(r) ==
  /\ apc[r] = "password_delete"
  /\ user_sessions' = AfterRevokeAll(areq[r].id)
  /\ RevokedAll(areq[r].id)
  /\ AFinish(r)
  /\ UNCHANGED <<now, is_active, password_hash, dbVars, connVars, reqVars, res, prodVars>>

\* PATCH /api/users/:id/deactivate
DeactivateStart(r, token, id) == Authenticated(r, token, Forged, id, "deactivate_update")

\* UPDATE users SET is_active = false ... RETURNING, 404 when no row
DeactivateUpdate(r) ==
  /\ apc[r] = "deactivate_update"
  /\ IF areq[r].id \notin Users
       THEN /\ AFinish(r)
            /\ UNCHANGED is_active
       ELSE /\ is_active' = [is_active EXCEPT ![areq[r].id] = FALSE]
            /\ apc' = [apc EXCEPT ![r] = "deactivate_delete"]
            /\ UNCHANGED areq
  /\ UNCHANGED <<now, password_hash, user_sessions, revoked,
                 dbVars, connVars, reqVars, res, prodVars>>

\* DELETE FROM user_sessions WHERE user_id = $1, 200
DeactivateDelete(r) ==
  /\ apc[r] = "deactivate_delete"
  /\ user_sessions' = AfterRevokeAll(areq[r].id)
  /\ RevokedAll(areq[r].id)
  /\ AFinish(r)
  /\ UNCHANGED <<now, is_active, password_hash, dbVars, connVars, reqVars, res, prodVars>>

\* DELETE FROM user_sessions WHERE expires_at <= NOW()
\* (AfterCleanupEager: the same with a sweep that is one tick ahead.)
AfterCleanupEager == {s \in user_sessions : ~(s.expires_at <= now + 1)}
AfterCleanup == {s \in user_sessions : ~(s.expires_at <= now)}

\* History of a sweep: one of the tokens whose rows it deleted.
Swept ==
  IF user_sessions' # user_sessions
    THEN \E s \in user_sessions \ user_sessions' :
           revoked' = [token |-> s.session_token, by |-> "cleanup"]
    ELSE UNCHANGED revoked

\* POST /api/auth/cleanup-sessions
CleanupSessions ==
  /\ user_sessions' = AfterCleanup
  /\ Swept
  /\ UNCHANGED <<now, is_active, password_hash, apc, areq,
                 dbVars, connVars, reqVars, res, prodVars>>

\* Time passes.
Tick ==
  /\ now < MaxTime
  /\ now' = now + 1
  /\ UNCHANGED <<is_active, password_hash, user_sessions, apc, areq, revoked,
                 dbVars, connVars, reqVars, res, prodVars>>

AuthInit ==
  /\ now = 0
  /\ is_active = [u \in Users |-> TRUE]
  /\ password_hash = [u \in Users |-> 1]
  /\ user_sessions = {}
  /\ apc = [r \in AReqs |-> "idle"]
  /\ areq = [r \in AReqs |-> NoRequest]
  /\ revoked = [token |-> Forged, by |-> "none"]

(* ------------------------- specifications ------------------------------ *)
OrderInitWith(stock_quantity) ==
  /\ stock = stock_quantity
  /\ initStock = stock
  /\ active = [p \in Products |-> TRUE]
  /\ price = Prices
  /\ orders = NoRows
  /\ order_items = NoRows
  /\ nextOrderId = 1
  /\ cache = CacheAbsent
  /\ busy = [c \in Conns |-> FALSE]
  /\ inTxn = [c \in Conns |-> FALSE]
  /\ txStock = [c \in Conns |-> NoChange]
  /\ txLocks = [c \in Conns |-> {}]
  /\ txStatus = [c \in Conns |-> NoRows]
  /\ pc = [r \in Reqs |-> "idle"]
  /\ body = [r \in Reqs |-> [n |-> 0, id |-> 0]]
  /\ client = [r \in Reqs |-> 0]
  /\ idx = [r \in Reqs |-> 1]
  /\ totalAmount = [r \in Reqs |-> 0]
  /\ processedItems = [r \in Reqs |-> <<>>]
  /\ res = Response(0, "none")

OrderInit == OrderInitWith([p \in Products |-> MaxStock])

Init == OrderInit /\ AuthInit /\ ProductInit

CreateSteps(r) ==
  \/ \E c \in Conns, user_id \in {NoUser, SomeUser}, n \in 0..MaxLines :
       CreateStart(r, c, user_id, n)
  \/ \E product_id \in Products \cup {MissingProduct}, quantity \in Quantities :
       CreateSelect(r, product_id, quantity)
  \/ CreateUpdate(r)
  \/ CreateCommit(r)

CreateOrder(r) == CreateSteps(r) \/ CreateDeadlock(r)

CancelOrder(r) ==
  \/ \E c \in Conns, id \in OrderIds : CancelStart(r, c, id)
  \/ CancelRestore(r)
  \/ CancelDeadlock(r)
  \/ CancelCommit(r)

\* The workload is bounded: a create request starts only while the orders
\* it and the requests in flight may insert stay within the limit, a cancel
\* request only while no stock has grown beyond MaxStock.
MayCreate(r, limit) ==
  Idle(r) => nextOrderId + Cardinality({q \in Reqs : pc[q] \in CreatePcs}) <= limit
MayCancel(r) == Idle(r) => \A p \in Products : stock[p] <= MaxStock

\* The order service with one order: every handler, every input. One
\* creation runs at a time, so no creation waits for a lock.
Next ==
  \/ \E r \in Reqs : MayCreate(r, 1) /\ CreateSteps(r)
  \/ \E r \in Reqs : MayCancel(r) /\ CancelOrder(r)
  \/ \E c \in Conns, id \in OrderIds, status \in StatusInputs : UpdateStatus(c, id, status)
  \/ \E p \in Products : DeleteProduct(p)

Spec == Init /\ [][Next]_vars

\* Order creation alone, with products being soft-deleted meanwhile.
NextCreate ==
  \/ \E r \in Reqs : MayCreate(r, MaxOrders) /\ CreateOrder(r)
  \/ \E p \in Products : DeleteProduct(p)

SpecCreate == Init /\ [][NextCreate]_vars

\* Orders being created and cancelled concurrently.
NextCancel ==
  \/ \E r \in Reqs : MayCreate(r, MaxOrders) /\ CreateOrder(r)
  \/ \E r \in Reqs : MayCancel(r) /\ CancelOrder(r)

SpecCancel == Init /\ [][NextCancel]_vars

\* The login service.
Login(r) ==
  \/ \E user \in Users \cup {UnknownUser}, password \in Passwords : LoginRead(r, user, password)
  \/ LoginInsert(r)

Logout(r) ==
  \/ \E token \in Tokens : LogoutStart(r, token)
  \/ LogoutDelete(r)

ChangePassword(r) ==
  \/ \E token \in Tokens : ChangePasswordStart(r, token)
  \/ \E current_password \in Passwords : ChangePasswordSelect(r, current_password)
  \/ \E new_password \in Passwords : ChangePasswordUpdate(r, new_password)
  \/ ChangePasswordDelete(r)

Deactivate(r) ==
  \/ \E token \in Tokens, id \in Users \cup {UnknownUser} : DeactivateStart(r, token, id)
  \/ DeactivateUpdate(r)
  \/ DeactivateDelete(r)

NextAuth ==
  \/ \E r \in AReqs : Login(r)
  \/ \E r \in AReqs : Logout(r)
  \/ \E r \in AReqs : ChangePassword(r)
  \/ \E r \in AReqs : Deactivate(r)
  \/ CleanupSessions
  \/ Tick

SpecAuth == Init /\ [][NextAuth]_vars

\* Sessions being opened, closed, expiring and swept.
NextSweep ==
  \/ \E r \in AReqs : Login(r)
  \/ \E r \in AReqs : Logout(r)
  \/ CleanupSessions
  \/ Tick

SpecSweep == Init /\ [][NextSweep]_vars

\* Orders being created while the status of earlier orders is updated.
NextStatus ==
  \/ \E r \in Reqs : MayCreate(r, MaxOrders) /\ CreateOrder(r)
  \/ \E c \in Conns, id \in OrderIds, status \in StatusInputs : UpdateStatus(c, id, status)

SpecStatus == Init /\ [][NextStatus]_vars

\* The product service on its own: listings and changes of the catalogue,
\* with a cache whose commands may fail and whose key may expire.
NextProduct ==
  \/ \E r \in PReqs, ok \in BOOLEAN : ProductsGet(r, ok)
  \/ \E r \in PReqs : ProductsQuery(r)
  \/ \E r \in PReqs, ok \in BOOLEAN : ProductsSet(r, ok)
  \/ \E r \in PReqs, name \in BOOLEAN, price_field \in PriceInputs :
       ProductCreate(r, name, price_field)
  \/ \E r \in PReqs, id \in Products \cup {MissingProduct}, price_field \in PriceInputs :
       ProductUpdate(r, id, price_field, NoField, NoField)
  \/ \E r \in PReqs, id \in Products \cup {MissingProduct} : ProductDelete(r, id)
  \/ \E r \in PReqs, ok \in BOOLEAN : ProductInvalidate(r, ok)
  \/ \E r \in PReqs : ProductRespond(r)
  \/ CacheExpire

SpecProduct == Init /\ [][NextProduct]_vars

\* Order creation with malformed bodies: no lines, or a line without
\* product_id (item.product_id is undefined, the SELECT compares id with
\* NULL and returns no row).
NoProductId == 0

NextMalformed ==
  \/ \E r \in Reqs, c \in Conns, user_id \in {NoUser, SomeUser}, n \in 0..MaxLines :
       MayCreate(r, MaxOrders) /\ CreateStart(r, c, user_id, n)
  \/ \E r \in Reqs, product_id \in Products \cup {NoProductId}, quantity \in Quantities :
       CreateSelect(r, product_id, quantity)
  \/ \E r \in Reqs : CreateUpdate(r)
  \/ \E r \in Reqs : CreateDeadlock(r)
  \/ \E r \in Reqs : CreateCommit(r)

SpecMalformed == Init /\ [][NextMalformed]_vars

\* Every request slot sends one order-creation request for one unit of
\* the product Contended, and all of them are in flight together: none
\* reads the product before the last has begun.
Contended == CHOOSE p \in Products : \A q \in Products : p <= q
AllBegun == (\A q \in Reqs : ~Idle(q)) \/ res.status # 0

InitConcurrent ==
  /\ \E stock_quantity \in [Products -> 0..MaxStock] : OrderInitWith(stock_quantity)
  /\ AuthInit
  /\ ProductInit

NextConcurrent ==
  \/ \E r \in Reqs, c \in Conns : res.status = 0 /\ CreateStart(r, c, SomeUser, 1)
  \/ \E r \in Reqs : AllBegun /\ CreateSelect(r, Contended, 1)
  \/ \E r \in Reqs : CreateUpdate(r)
  \/ \E r \in Reqs : CreateCommit(r)

SpecConcurrent == InitConcurrent /\ [][NextConcurrent]_vars

\* The order service with one order while prices are edited: order requests
\* one at a time, updates of one product one at a time, at any moment
\* between the steps of the order requests.
OneAtATime(r) == Idle(r) => \A q \in Reqs : Idle(q)
OneUpdate == \A q \in PReqs : PIdle(q)

NextCatalog ==
  \/ \E r \in Reqs : MayCreate(r, 1) /\ OneAtATime(r) /\ CreateSteps(r)
  \/ \E r \in Reqs : MayCancel(r) /\ OneAtATime(r) /\ CancelOrder(r)
  \/ \E c \in Conns, id \in OrderIds, status \in {"delivered", "cancelled"} :
       UpdateStatus(c, id, status)
  \/ \E r \in PReqs, price_field \in PriceInputs :
       OneUpdate /\ ProductUpdate(r, Contended, price_field, NoField, NoField)
  \/ \E r \in PReqs : ProductInvalidate(r, TRUE)
  \/ \E r \in PReqs : ProductRespond(r)

SpecCatalog == Init /\ [][NextCatalog]_vars

\* Orders created and cancelled while the stock_quantity of a product is
\* written through the product service.
NextStock ==
  \/ \E r \in Reqs : MayCreate(r, 1) /\ OneAtATime(r) /\ CreateSteps(r)
  \/ \E r \in Reqs : MayCancel(r) /\ OneAtATime(r) /\ CancelOrder(r)
  \/ \E r \in PReqs, id \in {Contended, MissingProduct}, stock_field \in StockInputs :
       OneUpdate /\ ProductUpdate(r, id, NoField, stock_field, NoField)
  \/ \E r \in PReqs, ok \in BOOLEAN : ProductInvalidate(r, ok)
  \/ \E r \in PReqs : ProductRespond(r)

SpecStock == Init /\ [][NextStock]_vars

\* Order creations, one at a time, whose lines carry any integer as
\* item.quantity: the handler checks the items array, not its lines.
IntegerQuantities == {-1, 0, 1}

NextQuantity ==
  \/ \E r \in Reqs, c \in Conns, user_id \in {NoUser, SomeUser}, n \in 0..MaxLines :
       MayCreate(r, MaxOrders) /\ OneAtATime(r) /\ CreateStart(r, c, user_id, n)
  \/ \E r \in Reqs, product_id \in Products \cup {MissingProduct},
          quantity \in IntegerQuantities :
       CreateSelect(r, product_id, quantity)
  \/ \E r \in Reqs : CreateUpdate(r)
  \/ \E r \in Reqs : CreateCommit(r)

SpecQuantity == Init /\ [][NextQuantity]_vars

(* ------------------------------ properties ----------------------------- *)
Min(a, b) == IF a < b THEN a ELSE b

\* C1: under any interleaving of order creations no product's committed
\* stock_quantity is ever below zero.
C1_StockNeverNegative == \A p \in Products : stock[p] >= 0

\* C2: when the N = |Reqs| concurrent creations of one unit of one product
\* with initial stock S have all been answered, exactly min(N, S) of them
\* have succeeded and the product's stock is S - min(N, S).
C2_ConcurrentCreatesSellMinimum ==
  LET N == Cardinality(Reqs)
      S == initStock[Contended]
  IN (res.status # 0 /\ \A r \in Reqs : Idle(r)) =>
       /\ Cardinality(DOMAIN orders) = Min(N, S)
       /\ stock[Contended] = S - Min(N, S)

RECURSIVE SumOfTotals(_)
SumOfTotals(items) ==
  IF items = <<>> THEN 0 ELSE Head(items).total_price + SumOfTotals(Tail(items))

RECURSIVE QuantityOf(_, _)
QuantityOf(items, p) ==
  IF items = <<>> THEN 0
  ELSE (IF Head(items).product_id = p THEN Head(items).quantity ELSE 0)
       + QuantityOf(Tail(items), p)

\* C3: every persisted order's total_amount is the sum of the total_price
\* of its persisted items, and every item's total_price is its quantity
\* times the unit price that was read from the product.
C3_TotalIsSumOfItems ==
  \A o \in DOMAIN orders :
    /\ orders[o].total_amount = SumOfTotals(order_items[o])
    /\ \A i \in 1..Len(order_items[o]) :
         LET item == order_items[o][i]
         IN /\ item.unit_price = price[item.product_id]
            /\ item.total_price = item.quantity * item.unit_price

\* An order of two lines for two different products has been persisted.
C3_Witness ==
  \E o \in DOMAIN orders :
    /\ Len(order_items[o]) = 2
    /\ order_items[o][1].product_id # order_items[o][2].product_id
    /\ order_items[o][2].quantity = 2

\* What a failed creation leaves behind: the committed rows are those of
\* before the step, the transaction's writes and locks are gone, the
\* request is over.
NothingPersists(r) ==
  /\ stock' = stock
  /\ orders' = orders
  /\ order_items' = order_items
  /\ nextOrderId' = nextOrderId
  /\ txStock'[client[r]] = NoChange
  /\ txLocks'[client[r]] = {}
  /\ ~inTxn'[client[r]]
  /\ Idle(r)'

\* No statement of a creation before its COMMIT changes a committed row.
CreateWritesAreUncommitted ==
  \A r \in Reqs :
    (CreateUpdate(r) \/ \E product_id \in Products, quantity \in Quantities :
                          CreateSelect(r, product_id, quantity))
      => (stock' = stock /\ orders' = orders /\ order_items' = order_items)

\* C4: a creation in which a line asks for more than the stock the request
\* reads fails with the insufficient-stock error, and when it has finished
\* no committed stock, order or order item differs from before: the
\* decrements of its earlier lines are rolled back.
C4_InsufficientStockRollsBack ==
  [][/\ CreateWritesAreUncommitted
     /\ \A r \in Reqs, product_id \in Products, quantity \in Quantities :
          (/\ CreateSelect(r, product_id, quantity)
           /\ active[product_id]
           /\ stock[product_id] + txStock[client[r]][product_id] < quantity)
            => /\ res'.status = 500
               /\ res'.error = "insufficient_stock"
               /\ NothingPersists(r)]_vars

\* The creation failed on a line whose product an earlier line of the same
\* request had decremented: it read less than the committed stock.
C4_Witness ==
  /\ res.error = "insufficient_stock"
  /\ res.detail[1] \in Products
  /\ res.detail[2] < stock[res.detail[1]]
  /\ res.detail[2] < res.detail[3]

\* C5: a creation in which a line names a product that does not exist or
\* is inactive fails, and no stock change, order or order item of the
\* request persists.
C5_MissingProductRollsBack ==
  [][\A r \in Reqs, product_id \in Products \cup {MissingProduct}, quantity \in Quantities :
       (/\ CreateSelect(r, product_id, quantity)
        /\ (product_id \notin Products \/ ~active[product_id]))
         => /\ res'.status = 500
            /\ res'.error = "not_found"
            /\ NothingPersists(r)]_vars

\* A creation failed on a soft-deleted product.
C5_Witness ==
  /\ res.error = "not_found"
  /\ res.detail[1] \in Products
  /\ ~active[res.detail[1]]

\* C6: a cancellation of an order whose status it reads as not delivered
\* goes on to restore; no statement before its COMMIT changes a committed
\* row; and its COMMIT adds to each product's stock exactly the quantity
\* of the order's items for that product (nothing for the other
\* products), sets the order's status to cancelled and keeps the items.
C6_CancelRestoresStock ==
  [][/\ \A r \in Reqs, c \in Conns, id \in DOMAIN orders :
          (CancelStart(r, c, id) /\ VisibleStatus(c, id) # "delivered")
            => (pc'[r] \in {"restore", "cancel_commit"} /\ body'[r].id = id)
     /\ \A r \in Reqs :
          CancelRestore(r) => (stock' = stock /\ orders' = orders)
     /\ \A r \in Reqs :
          CancelCommit(r) =>
            /\ \A p \in Products :
                 stock'[p] = stock[p] + QuantityOf(order_items[body[r].id], p)
            /\ orders'[body[r].id].status = "cancelled"
            /\ order_items' = order_items
            /\ res' = Response(200, "cancelled")
            /\ ~inTxn'[client[r]]]_vars

\* An order with items has been cancelled and the stock is back at what it
\* was before the order.
C6_Witness ==
  /\ res = Response(200, "cancelled")
  /\ \E o \in DOMAIN orders :
       /\ orders[o].status = "cancelled"
       /\ Len(order_items[o]) = 2
       /\ \E p \in Products : QuantityOf(order_items[o], p) = 2
  /\ stock = initStock

\* C7: a cancellation of an order whose status it reads as delivered is
\* answered 400 with the domain error, and the order's status, the items
\* and every product's stock, committed or not, are as before.
C7_CancelDeliveredRejected ==
  [][\A r \in Reqs, c \in Conns, id \in DOMAIN orders :
       (CancelStart(r, c, id) /\ VisibleStatus(c, id) = "delivered")
         => /\ res' = Response(400, "delivered")
            /\ UNCHANGED <<stock, orders, order_items, txStock, txLocks, txStatus>>
            /\ Idle(r)']_vars

\* The cancellation of a delivered order has been rejected.
C7_Witness ==
  /\ res = Response(400, "delivered")
  /\ \E o \in DOMAIN orders : orders[o].status = "delivered" /\ Len(order_items[o]) > 0
  /\ \E p \in Products : stock[p] < initStock[p]

\* C8: once the committed status of an order is delivered or cancelled, no
\* step of the status update or of the cancellation changes it.
C8_TerminalStatuses ==
  [][\A o \in DOMAIN orders :
       orders[o].status \in {"delivered", "cancelled"}
         => orders'[o].status = orders[o].status]_vars

\* C9: a token is accepted, by the middleware or by the verify endpoint,
\* only while a session row for that very token with expires_at in the
\* future exists; and a token whose session row a logout has deleted is
\* rejected from then on, also while its signature and embedded expiry
\* are valid.
C9_RevokedTokenRejected ==
  /\ \A token \in Tokens :
       (AuthenticateToken(token) = 200 \/ VerifyStatus(token) = 200)
         => \E s \in user_sessions : s.session_token = token /\ s.expires_at > now
  /\ revoked.by = "logout"
       => (AuthenticateToken(revoked.token) # 200 /\ VerifyStatus(revoked.token) # 200)

\* C10: the logout deletes the row of its token and no other row; the
\* DELETE of a password change and of a deactivation deletes every row of
\* that user and no row of another user; and a token whose row such a
\* revokeAll has deleted is rejected from then on.
C10_RevokeFrames ==
  [][/\ \A r \in AReqs :
          LogoutDelete(r) =>
            user_sessions' = user_sessions \ {s \in user_sessions : s.session_token = areq[r].token}
     /\ \A r \in AReqs :
          (ChangePasswordDelete(r) \/ DeactivateDelete(r)) =>
            user_sessions' = user_sessions \ {s \in user_sessions : s.user_id = areq[r].id}
     /\ (revoked.by = "revokeAll"
           => (AuthenticateToken(revoked.token) # 200 /\ VerifyStatus(revoked.token) # 200))'
    ]_vars

\* C11: every token that is rejected is rejected with one and the same
\* status and error, by the middleware and by the verify endpoint, whether
\* its signature is invalid or expired or its session row is missing or
\* expired.
C11_RejectionsIdentical ==
  \A t1, t2 \in Tokens :
    /\ (AuthenticateToken(t1) # 200 /\ AuthenticateToken(t2) # 200)
         => /\ AuthenticateToken(t1) = AuthenticateToken(t2)
            /\ AuthenticateError(t1) = AuthenticateError(t2)
    /\ (VerifyStatus(t1) # 200 /\ VerifyStatus(t2) # 200)
         => /\ VerifyStatus(t1) = VerifyStatus(t2)
            /\ VerifyError(t1) = VerifyError(t2)

\* C18: the sweep deletes exactly the rows whose expires_at is not in the
\* future, and the answer of the middleware and of the verify endpoint to
\* every token is the same after the sweep as before it.
C18_CleanupKeepsVerify ==
  [][CleanupSessions =>
       /\ user_sessions' = user_sessions \ {s \in user_sessions : s.expires_at <= now}
       /\ \A token \in Tokens :
            /\ AuthenticateToken(token)' = AuthenticateToken(token)
            /\ AuthenticateError(token)' = AuthenticateError(token)
            /\ VerifyStatus(token)' = VerifyStatus(token)
            /\ VerifyError(token)' = VerifyError(token)]_vars

\* A sweep has deleted an expired row and a row that verify accepts is
\* still there.
C18_Witness ==
  /\ revoked.by = "cleanup"
  /\ revoked.token \notin {s.session_token : s \in user_sessions}
  /\ \E s \in user_sessions : AuthenticateToken(s.session_token) = 200

\* C14: an order creation with no lines, or with a line that has no
\* product_id, is answered 400 as a validation error, and committed stock,
\* orders and order items are unchanged.
C14_MalformedRejected ==
  [][\A r \in Reqs :
       /\ \A c \in Conns, user_id \in {NoUser, SomeUser} :
            CreateStart(r, c, user_id, 0)
              => /\ res' = Response(400, "validation")
                 /\ UNCHANGED <<stock, orders, order_items>>
       /\ \A quantity \in Quantities :
            CreateSelect(r, NoProductId, quantity)
              => /\ res' = Response(400, "validation")
                 /\ UNCHANGED <<stock, orders, order_items>>]_vars

\* The quantity of product p in the orders 1..o that are not cancelled.
RECURSIVE OrderedQuantity(_, _)
OrderedQuantity(o, p) ==
  IF o = 0 THEN 0
  ELSE (IF orders[o].status # "cancelled" THEN QuantityOf(order_items[o], p) ELSE 0)
       + OrderedQuantity(o - 1, p)

\* C19: for every product the committed stock plus the quantities of the
\* product in the orders that are not cancelled is the initial stock.
C19_StockConservation ==
  \A p \in Products : stock[p] + OrderedQuantity(nextOrderId - 1, p) = initStock[p]

\* C20: a connection that is in the pool carries no open transaction.
C20_NoOpenTransactionInPool ==
  \A c \in Conns : ~busy[c] => ~inTxn[c]

\* C17: a successful creation persists exactly one new order, in status
\* pending, and one item row per line of the request; the committed stock
\* of each product goes down by the quantity ordered of it, so a product
\* on no line keeps its stock; every order that existed before is the same
\* row with the same items after the creation's COMMIT.
C17_CreateEffects ==
  [][\A r \in Reqs : CreateCommit(r) =>
       LET new == nextOrderId
       IN /\ new \notin DOMAIN orders
          /\ DOMAIN orders' = DOMAIN orders \cup {new}
          /\ DOMAIN order_items' = DOMAIN order_items \cup {new}
          /\ orders'[new].status = "pending"
          /\ Len(order_items'[new]) = body[r].n
          /\ \A p \in Products :
               stock'[p] = stock[p] - QuantityOf(order_items'[new], p)
          /\ \A o \in DOMAIN orders :
               /\ orders'[o] = orders[o]
               /\ order_items'[o] = order_items[o]]_vars

\* The store shows the write of request r.
Written(r) ==
  CASE preq[r].op = "create" -> created > 0
    [] preq[r].op = "update" -> price[preq[r].id] = Coalesce(preq[r].price, price[preq[r].id])
                                /\ (preq[r].price # NoField => price[preq[r].id] = preq[r].price[1])
    [] preq[r].op = "delete" -> ~active[preq[r].id]
    [] OTHER -> FALSE

\* C12: a product create, update or soft-delete answers with success only
\* after its del of the key 'products:all', and the del comes after its
\* store write; when the request ran alone, its write is in the store when
\* the key is deleted and the key is absent when the response is sent.
C12_InvalidatedBeforeResponse ==
  [][\A r \in PReqs :
       /\ (/\ ~PIdle(r) /\ PIdle(r)'
           /\ preq[r].op \in Mutations
           /\ pres'.status \in {200, 201})
            => /\ ppc[r] = "respond"
               /\ preq[r].alone => (~cache.present /\ ~cache'.present)
       /\ (ppc[r] = "invalidate" /\ ppc'[r] = "respond")
            => /\ ~cache'.present
               /\ preq[r].alone => Written(r)]_vars

\* A product update that ran alone has deleted the key and is about to
\* answer, with the new price in the store.
C12_Witness ==
  \E r \in PReqs :
    /\ ppc[r] = "respond"
    /\ preq[r].alone
    /\ preq[r].op = "update"
    /\ preq[r].price # NoField
    /\ price[preq[r].id] # Prices[preq[r].id]
    /\ ~cache.present

\* C13: the cache is fail-open: with the store query succeeding, a listing
\* request is answered 200 with the rows the store returned, also when the
\* key is absent and when the cache's get or set fails; only a hit is
\* answered from the cache.
C13_ListingFailOpen ==
  [][\A r \in PReqs, ok \in BOOLEAN :
       /\ (ProductsGet(r, ok) /\ PIdle(r)')
            => /\ cache.present
               /\ pres' = PResponse("list", 200, cache.products)
       /\ ProductsSet(r, ok)
            => pres' = PResponse("list", 200, preq[r].products)]_vars

\* C16: once an order is persisted, no later step changes its total_amount
\* or its items (their product, quantity, unit_price and total_price):
\* not an update of the product's price, not a status update, not a
\* cancellation.
C16_TotalsImmutable ==
  [][\A o \in DOMAIN orders :
       /\ o \in DOMAIN orders'
       /\ orders'[o].total_amount = orders[o].total_amount
       /\ order_items'[o] = order_items[o]]_vars

\* A cancelled order whose product has had its price changed since the
\* order read it: the item keeps the price read, the order its total.
C16_Witness ==
  \E o \in DOMAIN orders :
    /\ orders[o].status = "cancelled"
    /\ orders[o].total_amount > 0
    /\ orders[o].total_amount = SumOfTotals(order_items[o])
    /\ \E i \in 1..Len(order_items[o]) :
         order_items[o][i].unit_price # price[order_items[o][i].product_id]

\* C15: the committed stock_quantity of a product changes only at the
\* COMMIT of an order creation, which lowers it, and at the COMMIT of a
\* cancellation, which raises it; no step of any other operation changes
\* it, and no step makes it negative.
C15_StockOnlyThroughOrders ==
  [][\A p \in Products :
       /\ stock'[p] < stock[p] => \E r \in Reqs : CreateCommit(r)
       /\ stock'[p] > stock[p] => \E r \in Reqs : CancelCommit(r)
       /\ stock[p] >= 0 => stock'[p] >= 0]_vars

\* The lines of items that name product p.
LinesOf(items, p) == Len(SelectSeq(items, LAMBDA item : item.product_id = p))

\* C24: a line for a product that earlier lines of the same order name is
\* checked against the stock less the quantities of those lines: if the
\* quantities together exceed the stock the order is answered 500 and
\* nothing of it persists, otherwise the line is accepted; an order
\* committed with several lines for one product leaves that product's
\* stock lowered by their sum and not below zero.
C24_SameProductCumulative ==
  [][\A r \in Reqs :
       /\ \A p \in Products, quantity \in Quantities :
            (CreateSelect(r, p, quantity) /\ ProductFound(p) /\ LinesOf(processedItems[r], p) > 0)
              => IF QuantityOf(processedItems[r], p) + quantity > stock[p]
                   THEN /\ res' = ProductError("insufficient_stock", p,
                                     stock[p] - QuantityOf(processedItems[r], p), quantity)
                        /\ Idle(r)'
                        /\ UNCHANGED <<stock, orders, order_items>>
                        /\ txStock'[client[r]] = NoChange
                   ELSE /\ pc'[r] = "update"
                        /\ LinesOf(processedItems'[r], p) = LinesOf(processedItems[r], p) + 1
       /\ CreateCommit(r)
            => \A p \in Products :
                 LinesOf(processedItems[r], p) > 1
                   => /\ QuantityOf(processedItems[r], p) <= stock[p]
                      /\ stock'[p] = stock[p] - QuantityOf(processedItems[r], p)]_vars

\* An order with two lines for the same product has been persisted, and
\* the stock is lower by both quantities.
C24_Witness ==
  \E o \in DOMAIN orders : \E p \in Products :
    /\ LinesOf(order_items[o], p) > 1
    /\ stock[p] = initStock[p] - QuantityOf(order_items[o], p)

\* C23: whatever integers the lines carry as quantity, the COMMIT of an
\* order creation leaves no product's stock above its value before, every
\* item of the new order has a quantity of at least 1, and the new order's
\* total_amount is not negative.
C23_QuantitiesPositive ==
  [][\A r \in Reqs : CreateCommit(r) =>
       /\ \A p \in Products : stock'[p] <= stock[p]
       /\ \A i \in 1..Len(order_items'[nextOrderId]) :
            order_items'[nextOrderId][i].quantity >= 1
       /\ orders'[nextOrderId].total_amount >= 0]_vars

\* C21: when the last response the service sent is the success of a
\* product create, update or soft-delete and no such request is in flight,
\* a listing request's setEx does not store a snapshot that differs from
\* the store, that is, one read before the change.
C21_NoStaleSnapshot ==
  [][\A r \in PReqs :
       (/\ ProductsSet(r, TRUE)
        /\ pres.op \in Mutations
        /\ pres.status \in {200, 201}
        /\ \A q \in PReqs : preq[q].op \notin Mutations)
         => cache'.products = ActiveProducts]_vars

\* C22: once the deactivation of a user has responded (the user is
\* inactive and no deactivation of the user is still before its DELETE),
\* the user has no session row that verify accepts.
C22_NoSessionOfInactiveUser ==
  \A u \in Users :
    (/\ ~is_active[u]
     /\ \A r \in AReqs : ~(apc[r] = "deactivate_delete" /\ areq[r].id = u))
      => \A s \in user_sessions :
           s.user_id = u => VerifyStatus(s.session_token) # 200

====
